---- MODULE Spec2Model ----
(***************************************************************************)
(* Obsidian-Tracker: the application state held by App (src/App.tsx), its  *)
(* mutation handlers, the localStorage mirror and the backup/restore path. *)
(*                                                                         *)
(* Dates are day numbers (the 'yyyy-MM-dd' strings of the source order the *)
(* same way); ids are strings, as in the source.                           *)
(***************************************************************************)
EXTENDS Integers, Sequences, FiniteSets, TLC

VARIABLES
  habits,          \* useState<Habit[]>          App.tsx:52
  logs,            \* useState<HabitLog[]>       App.tsx:53
  microWins,       \* useState<MicroWin[]>       App.tsx:54
  microWinLogs,    \* useState<MicroWinLog[]>    App.tsx:55
  dayPlans,        \* useState<DayPlan[]>        App.tsx:56
  journalEntries,  \* useState<JournalEntry[]>   App.tsx:57
  isLoaded,        \* useState(false)            App.tsx:58
  crashed,         \* the load effect threw: React has unmounted App
  storage,         \* localStorage: the six obsidian_* keys
  download,        \* the last backup file handed to the browser (a.click())
  dialog,          \* text of the alert() the last handler showed, "" if none
  uuids,           \* how many crypto.randomUUID() values were drawn
  steps,           \* handler calls made since the initial load
  budget,          \* how many handler calls the run explores
  hist,            \* the last two handler calls, each with the state it started from
  currentView,     \* useState<ViewState>       App.tsx:49
  apiKey,          \* useState<string>('')      part_000:23, Dashboard's prop
  dashboard,       \* which mount of Dashboard is (or was last) on screen
  aiInsight,       \* useState<string>("")      part_002:69
  loadingAi,       \* useState(false)           part_002:70
  pendingAi,       \* generateContent requests that have not settled
  aiCalls,         \* handleAiAnalysis calls made
  aiRequests,      \* generateContent requests issued
  aiLast,          \* the last event of the AI coach, with what it started from
  heatmapSelectedHabitId,  \* useState<string>('')  Journal.tsx:214
  selectedDate,    \* useState<Date | null>(null)     TaskManager.tsx:14
  isSidebarOpen,   \* useState(false)                 TaskManager.tsx:15
  tempTasks,       \* useState<DailyTask[]>([])       TaskManager.tsx:18
  aliased,         \* how many leading tempTasks are the very objects of the
                   \* tasks of the first plan of selectedDate in dayPlans
  randoms,         \* how many Math.random() values were drawn
  taskLast,        \* the last event of the task sidebar, with the plans it opened on
  now,             \* the calendar day it is (new Date())
  todayStr,        \* useMemo(() => format(new Date(), ...), [])  part_001:36
  loadLast         \* what the storage held before the first commit's effects
                   \* ran and after them

collections == <<habits, logs, microWins, microWinLogs, dayPlans, journalEntries>>
vars == <<habits, logs, microWins, microWinLogs, dayPlans, journalEntries,
          isLoaded, crashed, storage, download, dialog, uuids, steps, budget, hist,
          currentView, apiKey, dashboard, aiInsight, loadingAi, pendingAi,
          aiCalls, aiRequests, aiLast, heatmapSelectedHabitId,
          selectedDate, isSidebarOpen, tempTasks, aliased, randoms, taskLast,
          now, todayStr, loadLast>>
\* the state of the navigation and of the Dashboard
aiVars == <<currentView, apiKey, dashboard, aiInsight, loadingAi, pendingAi,
            aiCalls, aiRequests, aiLast, heatmapSelectedHabitId>>
\* the state of the task manager
taskVars == <<selectedDate, isSidebarOpen, tempTasks, aliased, randoms, taskLast>>
\* the clock, and the Journal view's memo of it
clockVars == <<now, todayStr>>

----------------------------------------------------------------------------
(* Bounds of the model *)

\* handler calls explored after the initial load
MaxSteps == 2
\* crypto.randomUUID() draws
MaxUuids == 1
\* toggles reach this many days before today
DaysBack == 0
\* reorder indices reach this far outside the list
IndexSlack == 1
\* the journal is edited for this many days before today
JournalDaysBack == 1
\* how many days back the task calendar is used
PlanDaysBack == 1
\* midnights that pass while the page is open
MaxDays == 1
\* clicks on Analyze
MaxAiCalls == 2
\* habits a user keeps
MaxHabits == 40
\* mounts of the Dashboard view
MaxMounts == 2

----------------------------------------------------------------------------
(* Values *)

\* new Date(): the day the session runs on
Today == 30

subDays(d, n) == d - n

\* crypto.randomUUID(): the n-th value drawn; no two draws agree
randomUUID(n) == <<"uuid-1", "uuid-2", "uuid-3", "uuid-4">>[n]

\* an id no entity ever carries
GhostId == "ghost"

\* JavaScript's undefined (a missing array element, a find() without a match)
Undefined == [undefined |-> TRUE]
\* JSON's null
Null == [null |-> TRUE]

DEFAULT_HABITS ==
  << [id |-> "1", name |-> "Morning Run", objective |-> "5km",
      minObjective |-> "1km", createdAt |-> subDays(Today, 7)],
     [id |-> "2", name |-> "Deep Work", objective |-> "4 Hours",
      minObjective |-> "1 Hour", createdAt |-> subDays(Today, 7)],
     [id |-> "3", name |-> "Reading", objective |-> "30 Pages",
      minObjective |-> "5 Pages", createdAt |-> subDays(Today, 7)] >>

DEFAULT_MICRO_WINS ==
  << [id |-> "m1", text |-> "Woke up at 9am"],
     [id |-> "m2", text |-> "Made my bed at 9:30"],
     [id |-> "m3", text |-> "Opened Spreadsheet"] >>

\* Morning Run: today and the 4 days before, fully done;
\* Deep Work: today done enough, the two days before fully done.
generatePreviewLogs ==
  [i \in 1..5 |-> [date |-> subDays(Today, i - 1), habitId |-> "1",
                   completed |-> TRUE, partial |-> FALSE]]
  \o << [date |-> Today, habitId |-> "2", completed |-> FALSE, partial |-> TRUE],
        [date |-> subDays(Today, 1), habitId |-> "2", completed |-> TRUE, partial |-> FALSE],
        [date |-> subDays(Today, 2), habitId |-> "2", completed |-> TRUE, partial |-> FALSE] >>

DEFAULT_LOGS == generatePreviewLogs

----------------------------------------------------------------------------
(* Array helpers *)

Range(s) == {s[i] : i \in 1..Len(s)}

\* Array.prototype.filter is SelectSeq.
\* Array.prototype.find: the first of the matches, or undefined
firstOf(matches) == IF Len(matches) > 0 THEN matches[1] ELSE Undefined

\* { ...h, ...updates }
spread(h, updates) ==
  [f \in DOMAIN h \cup DOMAIN updates |->
     IF f \in DOMAIN updates THEN updates[f] ELSE h[f]]

----------------------------------------------------------------------------
(* JSON *)

\* A text that is JSON is modelled by the value it encodes, [json |-> value];
\* any other text by NotJson.
NotJson == [garbage |-> TRUE]

\* JSON.stringify of an array: an undefined element is written as null
stringifyArray(a) ==
  [json |-> [i \in 1..Len(a) |-> IF a[i] = Undefined THEN Null ELSE a[i]]]

\* the empty string: not JSON, and falsy
EmptyText == [empty |-> TRUE]

\* JSON.parse: the encoded value; a text that is not JSON throws (SyntaxError)
parseThrows(text) == "json" \notin DOMAIN text
parse(text) == text.json

\* if (stored): getItem's null and the empty string are falsy
truthy(stored) == stored # Null /\ stored # EmptyText

\* the six storage keys and the state each mirrors
Snap ==
  [habits |-> habits, logs |-> logs, microWins |-> microWins,
   microWinLogs |-> microWinLogs, dayPlans |-> dayPlans,
   journalEntries |-> journalEntries]

EmptyStorage ==
  [k \in {"obsidian_habits", "obsidian_logs", "obsidian_microwins",
          "obsidian_microwin_logs", "obsidian_plans", "obsidian_journal"} |-> Null]

\* saveEffect without the test of isLoaded
saveEffect_noGuard(loaded, st, s) ==
  [obsidian_habits        |-> stringifyArray(s.habits),
   obsidian_logs          |-> stringifyArray(s.logs),
   obsidian_microwins     |-> stringifyArray(s.microWins),
   obsidian_microwin_logs |-> stringifyArray(s.microWinLogs),
   obsidian_plans         |-> stringifyArray(s.dayPlans),
   obsidian_journal       |-> stringifyArray(s.journalEntries)]

\* saveEffect without the write of the journal key
saveEffect_skipsJournal(loaded, st, s) ==
  IF loaded
  THEN [obsidian_habits        |-> stringifyArray(s.habits),
        obsidian_logs          |-> stringifyArray(s.logs),
        obsidian_microwins     |-> stringifyArray(s.microWins),
        obsidian_microwin_logs |-> stringifyArray(s.microWinLogs),
        obsidian_plans         |-> stringifyArray(s.dayPlans),
        obsidian_journal       |-> st.obsidian_journal]
  ELSE st

\* the save effect: every key is rewritten from the current collections
saveEffect(loaded, st, s) ==
  IF loaded
  THEN [obsidian_habits        |-> stringifyArray(s.habits),
        obsidian_logs          |-> stringifyArray(s.logs),
        obsidian_microwins     |-> stringifyArray(s.microWins),
        obsidian_microwin_logs |-> stringifyArray(s.microWinLogs),
        obsidian_plans         |-> stringifyArray(s.dayPlans),
        obsidian_journal       |-> stringifyArray(s.journalEntries)]
  ELSE st

----------------------------------------------------------------------------
(* History of handler calls *)

Call(op, args) == [op |-> op, args |-> args, pre |-> Snap]

record(c) == IF Len(hist) < 2 THEN Append(hist, c) ELSE <<hist[2], c>>

\* a handler can run: the views are rendered only once isLoaded (App.tsx:238)
CanCall == isLoaded /\ steps < budget

\* what every handler call leaves behind: the save effect (App.tsx:87-96) runs on
\* the re-render, and the call is remembered
Saved(op, args, msg) ==
  /\ storage' = saveEffect(isLoaded, storage, Snap')
  /\ dialog' = msg
  /\ steps' = steps + 1
  /\ hist' = record(Call(op, args))
  /\ UNCHANGED <<isLoaded, crashed, budget>>
  /\ UNCHANGED aiVars
  /\ UNCHANGED <<clockVars, loadLast>>

\* a handler call that is not made from the task manager
After(op, args, msg) == Saved(op, args, msg) /\ UNCHANGED taskVars

----------------------------------------------------------------------------
(* Initial state and the load effect (App.tsx:52-84) *)

\* App as mounted, before its effects have run
Mounted ==
  /\ habits = <<>> /\ logs = <<>> /\ microWins = <<>>
  /\ microWinLogs = <<>> /\ dayPlans = <<>> /\ journalEntries = <<>>
  /\ isLoaded = FALSE
  /\ crashed = FALSE
  /\ download = Null
  /\ currentView = "DASHBOARD"
  /\ apiKey = ""
  /\ dashboard = 1
  /\ aiInsight = ""
  /\ loadingAi = FALSE
  /\ pendingAi = {}
  /\ aiCalls = 0
  /\ aiRequests = 0
  /\ aiLast = [ev |-> "none"]
  /\ heatmapSelectedHabitId = ""
  /\ selectedDate = Null
  /\ isSidebarOpen = FALSE
  /\ tempTasks = <<>>
  /\ aliased = 0
  /\ randoms = 0
  /\ taskLast = [ev |-> "none"]
  /\ now = Today
  /\ todayStr = Today
  /\ loadLast = [ev |-> "none"]
  /\ dialog = ""
  /\ uuids = 0
  /\ steps = 0
  /\ hist = <<>>

\* the first run: nothing is stored
Constructed == Mounted /\ storage = EmptyStorage

Init == Constructed /\ budget = MaxSteps
\* the same start, for the runs that explore one call more of fewer handlers
InitDeep == Constructed /\ budget = MaxSteps + 1

\* the load effect's JSON.parse calls: one stored text that is truthy and not
\* JSON throws out of the effect, which has no try/catch
\* what a key can hold when the page opens: nothing, the empty string, a text
\* that is not JSON, or the array an earlier session saved
StoredTexts(k) ==
  {Null, EmptyText, NotJson,
   stringifyArray(
     CASE k = "obsidian_habits" ->
            <<[id |-> "9", name |-> "Kept", objective |-> "a",
               minObjective |-> "b", createdAt |-> subDays(Today, 3)]>>
       [] k = "obsidian_logs" ->
            <<[date |-> Today, habitId |-> "9", completed |-> TRUE,
               partial |-> FALSE]>>
       [] k = "obsidian_microwins" -> <<[id |-> "m9", text |-> "Kept win"]>>
       [] k = "obsidian_microwin_logs" ->
            <<[date |-> Today, winId |-> "m9", completed |-> TRUE]>>
       [] k = "obsidian_plans" -> <<[date |-> Today, tasks |-> <<>>]>>
       [] OTHER -> <<[date |-> Today, content |-> <<"o", "k">>]>>)}

\* a page opened over the habit and micro-win lists an earlier session left:
\* none stored, an emptied list, or a list of one
InitReorder ==
  /\ Mounted
  /\ \E h \in (StoredTexts("obsidian_habits") \cup {stringifyArray(<<>>)})
                 \ {EmptyText, NotJson},
        w \in (StoredTexts("obsidian_microwins") \cup {stringifyArray(<<>>)})
                 \ {EmptyText, NotJson} :
       storage = [EmptyStorage EXCEPT !.obsidian_habits = h,
                                      !.obsidian_microwins = w]
  /\ budget = 2

\* a page opened over no journal, or over a stored journal that holds two
\* entries for today and one for the day before
InitJournal ==
  /\ Mounted
  /\ storage \in
       {EmptyStorage,
        [EmptyStorage EXCEPT !.obsidian_journal =
           stringifyArray(<<[date |-> Today, content |-> <<"a">>],
                            [date |-> subDays(Today, 1), content |-> <<"b">>],
                            [date |-> Today, content |-> <<"c">>]>>)]}
  /\ budget = MaxSteps

\* what an earlier session can have left: a habit kept for 40 days and done
\* on each of the last 32, and a habit created yesterday whose logs reach
\* back before its creation and past the 30-day window
TwoHabitStorage ==
  [EmptyStorage EXCEPT
     !.obsidian_habits = stringifyArray(
        <<[id |-> "8", name |-> "Walk", objective |-> "a", minObjective |-> "b",
           createdAt |-> subDays(Today, 40)],
          [id |-> "9", name |-> "Write", objective |-> "c", minObjective |-> "d",
           createdAt |-> subDays(Today, 1)]>>),
     !.obsidian_logs = stringifyArray(
        [i \in 1..32 |-> [date |-> subDays(Today, i - 1), habitId |-> "8",
                          completed |-> TRUE, partial |-> FALSE]]
        \o <<[date |-> Today, habitId |-> "9", completed |-> TRUE, partial |-> FALSE],
              [date |-> subDays(Today, 1), habitId |-> "9", completed |-> FALSE, partial |-> TRUE],
              [date |-> subDays(Today, 2), habitId |-> "9", completed |-> TRUE, partial |-> FALSE],
              [date |-> subDays(Today, 29), habitId |-> "9", completed |-> TRUE, partial |-> FALSE],
              [date |-> subDays(Today, 30), habitId |-> "9", completed |-> FALSE, partial |-> TRUE]>>)]

\* the Dashboard over the first-run defaults or over the stored two habits
InitStats ==
  /\ Mounted
  /\ storage \in {EmptyStorage, TwoHabitStorage}
  /\ budget = MaxSteps

\* n habits, of which the first f are fully done today and the next p done enough
ManyHabitStorage(n, f, p) ==
  [EmptyStorage EXCEPT
     !.obsidian_habits = stringifyArray(
        [i \in 1..n |-> [id |-> ToString(i), name |-> "Habit", objective |-> "a",
                         minObjective |-> "b", createdAt |-> subDays(Today, 7)]]),
     !.obsidian_logs = stringifyArray(
        [i \in 1..(f + p) |-> [date |-> Today, habitId |-> ToString(i),
                               completed |-> i <= f, partial |-> i > f]])]

\* the Dashboard of a user with many habits
InitMany ==
  /\ Mounted
  /\ \E n \in 1..MaxHabits, f \in 0..MaxHabits, p \in 0..1 :
       /\ f + p <= n
       /\ storage = ManyHabitStorage(n, f, p)
  /\ budget = 1

\* the plans an earlier session or a restored backup can have left: one for
\* yesterday, and two for today
StoredPlans ==
  << [date |-> subDays(Today, 1),
      tasks |-> <<[id |-> "t7", text |-> "Call bank", completed |-> TRUE]>>],
     [date |-> Today,
      tasks |-> <<[id |-> "t8", text |-> "Write notes", completed |-> FALSE]>>],
     [date |-> Today, tasks |-> <<>>] >>

\* a page opened over no plans, or over the stored ones
InitPlans ==
  /\ Mounted
  /\ storage \in {EmptyStorage,
                  [EmptyStorage EXCEPT !.obsidian_plans = stringifyArray(StoredPlans)]}
  /\ budget = MaxSteps + 1

\* a plan of six tasks for today, as a restored backup can leave it
SixTaskPlans ==
  << [date |-> Today,
      tasks |-> [i \in 1..6 |-> [id |-> "t" \o ToString(i), text |-> "Task",
                                 completed |-> FALSE, notes |-> ""]]] >>

\* the task manager over no plans, the stored ones, or the plan of six
InitTasks ==
  /\ Mounted
  /\ \E plans \in {StoredPlans, SixTaskPlans} :
       storage \in {EmptyStorage,
                    [EmptyStorage EXCEPT !.obsidian_plans = stringifyArray(plans)]}
  /\ budget = MaxSteps + 1

\* a page opened over whatever the storage holds
InitStored ==
  /\ Mounted
  /\ storage \in [obsidian_habits        : StoredTexts("obsidian_habits"),
                  obsidian_logs          : StoredTexts("obsidian_logs"),
                  obsidian_microwins     : StoredTexts("obsidian_microwins"),
                  obsidian_microwin_logs : StoredTexts("obsidian_microwin_logs"),
                  obsidian_plans         : StoredTexts("obsidian_plans"),
                  obsidian_journal       : StoredTexts("obsidian_journal")]
  /\ budget = 1

loadThrows(st) == \E k \in DOMAIN st : truthy(st[k]) /\ parseThrows(st[k])

\* the value one collection is set to: the parsed text, or the default
loadField(stored, default) == IF truthy(stored) THEN parse(stored) ELSE default

\* the Dashboard's effect on [habits, heatmapSelectedHabitId] (Journal.tsx:
\* 228-232), run on an empty selection: habits[0].id when there is a habit
firstHabitId(list) == IF Len(list) > 0 THEN list[1].id ELSE ""

\* storedKey is localStorage's obsidian_api_key (part_000:31), "" when the key
\* is absent: null and the empty string are both falsy at part_000:42
loadEffect(storedKey) ==
  /\ ~isLoaded /\ ~crashed
  /\ IF loadThrows(storage)
     THEN \* the exception leaves the effect before setIsLoaded(true); React
          \* unmounts the tree and none of the queued updates is rendered
          \* and skips the effects after it
          /\ crashed' = TRUE
          /\ loadLast' = [ev |-> "threw", before |-> storage, firstCommit |-> storage]
          /\ UNCHANGED <<collections, isLoaded, storage, apiKey,
                         heatmapSelectedHabitId>>
     ELSE /\ habits' = loadField(storage.obsidian_habits, DEFAULT_HABITS)
          /\ logs' = loadField(storage.obsidian_logs, DEFAULT_LOGS)
          /\ microWins' = loadField(storage.obsidian_microwins, DEFAULT_MICRO_WINS)
          /\ microWinLogs' = loadField(storage.obsidian_microwin_logs, microWinLogs)
          /\ dayPlans' = loadField(storage.obsidian_plans, dayPlans)
          /\ journalEntries' = loadField(storage.obsidian_journal, journalEntries)
          /\ isLoaded' = TRUE
          /\ crashed' = FALSE
          \* the save effect runs twice: in the first commit, with the initial
          \* collections and isLoaded false, and after the re-render that
          \* applies the load effect's updates
          /\ loadLast' = [ev |-> "loaded", before |-> storage,
                          firstCommit |-> saveEffect(isLoaded, storage, Snap)]
          /\ storage' = saveEffect(TRUE, loadLast'.firstCommit, Snap')
          /\ apiKey' = IF storedKey # "" THEN storedKey ELSE apiKey
          \* the Dashboard is rendered and its effect picks the first habit
          /\ heatmapSelectedHabitId' = firstHabitId(habits')
  /\ UNCHANGED <<download, dialog, uuids, steps, budget, hist>>
  /\ UNCHANGED <<currentView, dashboard, aiInsight, loadingAi, pendingAi,
                 aiCalls, aiRequests, aiLast>>
  /\ UNCHANGED <<taskVars, clockVars>>

\* the load effect of App.tsx, which stores no API key
Load == loadEffect("")

----------------------------------------------------------------------------
(* Habit logs (App.tsx:125-144) *)

\* toggleHabitLogs without the filter that drops the key's old log
toggleHabitLogs_noClean(prevLogs, habitId, date, type) ==
  LET isKey(l) == l.habitId = habitId /\ l.date = date
      notKey(l) == ~isKey(l)
      existing == firstOf(SelectSeq(prevLogs, isKey))
  IN  IF type = "FULL"
      THEN IF existing # Undefined /\ existing.completed
           THEN SelectSeq(prevLogs, notKey)
           ELSE Append(prevLogs, [date |-> date, habitId |-> habitId,
                                  completed |-> TRUE, partial |-> FALSE])
      ELSE IF type = "PARTIAL"
      THEN IF existing # Undefined /\ existing.partial
           THEN SelectSeq(prevLogs, notKey)
           ELSE Append(prevLogs, [date |-> date, habitId |-> habitId,
                                  completed |-> FALSE, partial |-> TRUE])
      ELSE prevLogs

\* toggleHabitLogs without the un-toggle branch: the log is always replaced
toggleHabitLogs_noUntoggle(prevLogs, habitId, date, type) ==
  LET notKey(l) == ~(l.habitId = habitId /\ l.date = date)
  IN  IF type = "FULL"
      THEN Append(SelectSeq(prevLogs, notKey),
                  [date |-> date, habitId |-> habitId, completed |-> TRUE, partial |-> FALSE])
      ELSE IF type = "PARTIAL"
      THEN Append(SelectSeq(prevLogs, notKey),
                  [date |-> date, habitId |-> habitId, completed |-> FALSE, partial |-> TRUE])
      ELSE prevLogs

\* toggleHabitLogs testing the wrong flag for the un-toggle
toggleHabitLogs_swappedTest(prevLogs, habitId, date, type) ==
  LET isKey(l) == l.habitId = habitId /\ l.date = date
      notKey(l) == ~isKey(l)
      existing == firstOf(SelectSeq(prevLogs, isKey))
  IN  IF type = "FULL"
      THEN IF existing # Undefined /\ existing.partial
           THEN SelectSeq(prevLogs, notKey)
           ELSE Append(SelectSeq(prevLogs, notKey),
                       [date |-> date, habitId |-> habitId,
                        completed |-> TRUE, partial |-> FALSE])
      ELSE IF type = "PARTIAL"
      THEN IF existing # Undefined /\ existing.completed
           THEN SelectSeq(prevLogs, notKey)
           ELSE Append(SelectSeq(prevLogs, notKey),
                       [date |-> date, habitId |-> habitId,
                        completed |-> FALSE, partial |-> TRUE])
      ELSE prevLogs

\* toggleHabitLogs setting the new flag on the key's old log instead of replacing it
toggleHabitLogs_blend(prevLogs, habitId, date, type) ==
  LET isKey(l) == l.habitId = habitId /\ l.date = date
      notKey(l) == ~isKey(l)
      existing == firstOf(SelectSeq(prevLogs, isKey))
  IN  IF type = "FULL"
      THEN IF existing # Undefined /\ existing.completed
           THEN SelectSeq(prevLogs, notKey)
           ELSE Append(SelectSeq(prevLogs, notKey),
                       [date |-> date, habitId |-> habitId, completed |-> TRUE,
                        partial |-> existing # Undefined /\ existing.partial])
      ELSE IF type = "PARTIAL"
      THEN IF existing # Undefined /\ existing.partial
           THEN SelectSeq(prevLogs, notKey)
           ELSE Append(SelectSeq(prevLogs, notKey),
                       [date |-> date, habitId |-> habitId, partial |-> TRUE,
                        completed |-> existing # Undefined /\ existing.completed])
      ELSE prevLogs

\* the updater toggleHabit hands to setLogs
toggleHabitLogs(prevLogs, habitId, date, type) ==
  LET isKey(l) == l.habitId = habitId /\ l.date = date
      notKey(l) == ~isKey(l)
      existing == firstOf(SelectSeq(prevLogs, isKey))
  IN  IF type = "FULL"
      THEN IF existing # Undefined /\ existing.completed
           THEN SelectSeq(prevLogs, notKey)
           ELSE Append(SelectSeq(prevLogs, notKey),
                       [date |-> date, habitId |-> habitId,
                        completed |-> TRUE, partial |-> FALSE])
      ELSE IF type = "PARTIAL"
      THEN IF existing # Undefined /\ existing.partial
           THEN SelectSeq(prevLogs, notKey)
           ELSE Append(SelectSeq(prevLogs, notKey),
                       [date |-> date, habitId |-> habitId,
                        completed |-> FALSE, partial |-> TRUE])
      ELSE prevLogs

toggleHabit(habitId, date, type) ==
  /\ CanCall
  /\ logs' = toggleHabitLogs(logs, habitId, date, type)
  /\ UNCHANGED <<habits, microWins, microWinLogs, dayPlans, journalEntries,
                 download, uuids>>
  /\ After("toggleHabit", <<habitId, date, type>>, "")

----------------------------------------------------------------------------
(* Habits (App.tsx:99-123) *)

addHabit(habitData) ==
  /\ CanCall
  /\ uuids < MaxUuids
  /\ uuids' = uuids + 1
  /\ habits' = Append(habits,
                      spread(habitData, [id |-> randomUUID(uuids + 1), createdAt |-> now]))
  /\ UNCHANGED <<logs, microWins, microWinLogs, dayPlans, journalEntries, download>>
  /\ After("addHabit", <<habitData>>, "")

\* habits.map(h => h.id === id ? { ...h, ...updates } : h)
updateHabitList(list, id, updates) ==
  [i \in 1..Len(list) |-> IF list[i].id = id THEN spread(list[i], updates) ELSE list[i]]

updateHabit(id, updates) ==
  /\ CanCall
  /\ habits' = updateHabitList(habits, id, updates)
  /\ UNCHANGED <<logs, microWins, microWinLogs, dayPlans, journalEntries, download, uuids>>
  /\ After("updateHabit", <<id, updates>>, "")

\* habits.SelectSeq(h => h.id !== id)
deleteHabitList(list, id) == LET keep(h) == h.id # id IN SelectSeq(list, keep)
\* deleteHabit without the cascade to the logs
deleteHabitLogs_noCascade(list, id) == list
\* logs.SelectSeq(l => l.habitId !== id)
deleteHabitLogs(list, id) == LET keep(l) == l.habitId # id IN SelectSeq(list, keep)

deleteHabit(id) ==
  /\ CanCall
  /\ habits' = deleteHabitList(habits, id)
  /\ logs' = deleteHabitLogs(logs, id)
  /\ UNCHANGED <<microWins, microWinLogs, dayPlans, journalEntries, download, uuids>>
  /\ After("deleteHabit", <<id>>, "")

\* where Array.prototype.splice starts, for a 0-based start on an array of length len
spliceStart(len, start) ==
  IF start < 0 THEN (IF len + start > 0 THEN len + start ELSE 0)
  ELSE IF start < len THEN start ELSE len

\* reorder without the early return on toIndex
reorder_noGuard(list, fromIndex, toIndex) ==
  LET s == spliceStart(Len(list), fromIndex)
      movedItem == IF s < Len(list) THEN list[s + 1] ELSE Undefined
      rest == SubSeq(list, 1, s) \o SubSeq(list, s + 2, Len(list))
      t == spliceStart(Len(rest), toIndex)
  IN  SubSeq(rest, 1, t) \o <<movedItem>> \o SubSeq(rest, t + 1, Len(rest))

\* reorder exchanging the two elements instead of moving one
reorder_swap(list, fromIndex, toIndex) ==
  IF toIndex < 0 \/ toIndex >= Len(list) THEN list
  ELSE IF fromIndex < 0 \/ fromIndex >= Len(list) THEN list
  ELSE [i \in 1..Len(list) |->
          IF i = fromIndex + 1 THEN list[toIndex + 1]
          ELSE IF i = toIndex + 1 THEN list[fromIndex + 1] ELSE list[i]]

\* the body shared by reorderHabits and reorderMicroWins (0-based indices)
reorder(list, fromIndex, toIndex) ==
  IF toIndex < 0 \/ toIndex >= Len(list) THEN list
  ELSE LET s == spliceStart(Len(list), fromIndex)
           movedItem == IF s < Len(list) THEN list[s + 1] ELSE Undefined
           rest == SubSeq(list, 1, s) \o SubSeq(list, s + 2, Len(list))
           t == spliceStart(Len(rest), toIndex)
       IN  SubSeq(rest, 1, t) \o <<movedItem>> \o SubSeq(rest, t + 1, Len(rest))

reorderHabits(fromIndex, toIndex) ==
  /\ CanCall
  /\ habits' = reorder(habits, fromIndex, toIndex)
  /\ UNCHANGED <<logs, microWins, microWinLogs, dayPlans, journalEntries, download, uuids>>
  /\ After("reorderHabits", <<fromIndex, toIndex>>, "")

----------------------------------------------------------------------------
(* Micro-wins (App.tsx:147-173) *)

addMicroWin(text) ==
  /\ CanCall
  /\ uuids < MaxUuids
  /\ uuids' = uuids + 1
  /\ microWins' = Append(microWins, [id |-> randomUUID(uuids + 1), text |-> text])
  /\ UNCHANGED <<habits, logs, microWinLogs, dayPlans, journalEntries, download>>
  /\ After("addMicroWin", <<text>>, "")

\* microWins.SelectSeq(w => w.id !== id)
deleteMicroWinList(list, id) == LET keep(w) == w.id # id IN SelectSeq(list, keep)
\* microWinLogs.SelectSeq(l => l.winId !== id)
deleteMicroWinLogs(list, id) == LET keep(l) == l.winId # id IN SelectSeq(list, keep)

deleteMicroWin(id) ==
  /\ CanCall
  /\ microWins' = deleteMicroWinList(microWins, id)
  /\ microWinLogs' = deleteMicroWinLogs(microWinLogs, id)
  /\ UNCHANGED <<habits, logs, dayPlans, journalEntries, download, uuids>>
  /\ After("deleteMicroWin", <<id>>, "")

reorderMicroWins(fromIndex, toIndex) ==
  /\ CanCall
  /\ microWins' = reorder(microWins, fromIndex, toIndex)
  /\ UNCHANGED <<habits, logs, microWinLogs, dayPlans, journalEntries, download, uuids>>
  /\ After("reorderMicroWins", <<fromIndex, toIndex>>, "")

\* toggleMicroWinLogs without the look-up of an existing log
toggleMicroWinLogs_alwaysAppend(prev, winId, date) ==
  Append(prev, [date |-> date, winId |-> winId, completed |-> TRUE])

\* the updater toggleMicroWin hands to setMicroWinLogs
toggleMicroWinLogs(prev, winId, date) ==
  LET isKey(l) == l.winId = winId /\ l.date = date
      notKey(l) == ~isKey(l)
      existing == firstOf(SelectSeq(prev, isKey))
  IN  IF existing # Undefined
      THEN SelectSeq(prev, notKey)
      ELSE Append(prev, [date |-> date, winId |-> winId, completed |-> TRUE])

toggleMicroWin(winId, date) ==
  /\ CanCall
  /\ microWinLogs' = toggleMicroWinLogs(microWinLogs, winId, date)
  /\ UNCHANGED <<habits, logs, microWins, dayPlans, journalEntries, download, uuids>>
  /\ After("toggleMicroWin", <<winId, date>>, "")

----------------------------------------------------------------------------
(* Day plans and journal (App.tsx:175-188) *)

\* saveDayPlanList adding the given tasks to those of the plan it replaces
saveDayPlanList_merge(prev, date, tasks) ==
  LET keep(p) == p.date # date
      same(p) == p.date = date
      old == firstOf(SelectSeq(prev, same))
  IN  Append(SelectSeq(prev, keep),
             [date |-> date,
              tasks |-> (IF old # Undefined THEN old.tasks ELSE <<>>) \o tasks])

saveDayPlanList(prev, date, tasks) ==
  LET keep(p) == p.date # date
  IN  Append(SelectSeq(prev, keep), [date |-> date, tasks |-> tasks])

saveDayPlan(date, tasks) ==
  /\ CanCall
  /\ dayPlans' = saveDayPlanList(dayPlans, date, tasks)
  /\ UNCHANGED <<habits, logs, microWins, microWinLogs, journalEntries, download, uuids>>
  /\ After("saveDayPlan", <<date, tasks>>, "")

\* the white space String.prototype.trim removes (of the characters used here)
WhiteSpace == {" ", "\t", "\n"}

\* String.prototype.trim, on a string given as its sequence of characters
RECURSIVE trimStart(_)
trimStart(c) ==
  IF c # <<>> /\ Head(c) \in WhiteSpace THEN trimStart(Tail(c)) ELSE c
RECURSIVE trimEnd(_)
trimEnd(c) ==
  IF c # <<>> /\ c[Len(c)] \in WhiteSpace
  THEN trimEnd(SubSeq(c, 1, Len(c) - 1)) ELSE c
trim(c) == trimEnd(trimStart(c))

\* saveJournalEntryList testing the content itself, untrimmed
saveJournalEntryList_noTrim(prev, date, content) ==
  LET keep(e) == e.date # date
      filtered == SelectSeq(prev, keep)
  IN  IF content = <<>> THEN filtered
      ELSE Append(filtered, [date |-> date, content |-> content])

saveJournalEntryList(prev, date, content) ==
  LET keep(e) == e.date # date
      filtered == SelectSeq(prev, keep)
  IN  IF trim(content) = <<>> THEN filtered
      ELSE Append(filtered, [date |-> date, content |-> content])

saveJournalEntry(date, content) ==
  /\ CanCall
  /\ journalEntries' = saveJournalEntryList(journalEntries, date, content)
  /\ UNCHANGED <<habits, logs, microWins, microWinLogs, dayPlans, download, uuids>>
  /\ After("saveJournalEntry", <<date, content>>, "")

----------------------------------------------------------------------------
(* The task manager (TaskManager.tsx:11-73, 135-151, 205-210) *)

\* Math.random().toString(), for the n-th value drawn
mathRandomString(n) == "0." \o ToString(n)

\* an empty slot of the sidebar
emptySlot(n) ==
  [id |-> mathRandomString(n), text |-> "", completed |-> FALSE, notes |-> ""]

\* dayPlans.find(p => p.date === dateStr), and where it is in the list
findPlan(list, date) == firstOf(SelectSeq(list, LAMBDA p : p.date = date))
findPlanIndex(list, date) ==
  CHOOSE i \in 1..Len(list) :
    list[i].date = date /\ \A j \in 1..(i - 1) : list[j].date # date

\* the slots handleDayClick shows: [...existingPlan.tasks] padded with empty
\* slots while there are fewer than 5, or 5 empty slots
paddedTasks(existingPlan, drawn) ==
  LET have == IF existingPlan # Undefined THEN existingPlan.tasks ELSE <<>>
      missing == IF Len(have) < 5 THEN 5 - Len(have) ELSE 0
  IN  have \o [i \in 1..missing |-> emptySlot(drawn + i)]

handleDayClick(day) ==
  /\ isLoaded /\ currentView = "TASKS" /\ steps < budget
  \* the overlay covers the calendar while the sidebar is open
  /\ ~isSidebarOpen
  /\ LET existingPlan == findPlan(dayPlans, day)
         padded == paddedTasks(existingPlan, randoms)
     IN  /\ selectedDate' = [day |-> day]
         /\ tempTasks' = padded
         \* the copy is shallow: the plan's tasks are in both arrays
         /\ aliased' = IF existingPlan # Undefined THEN Len(existingPlan.tasks) ELSE 0
         /\ randoms' = randoms + (Len(padded) - aliased')
  /\ isSidebarOpen' = TRUE
  /\ taskLast' = [ev |-> "open", plans |-> dayPlans, stored |-> storage.obsidian_plans]
  /\ steps' = steps + 1
  /\ UNCHANGED <<collections, isLoaded, crashed, storage, download, dialog,
                 uuids, budget, hist, aiVars, clockVars, loadLast>>

\* newTasks = [...tempTasks]; newTasks[index].field = value; setTempTasks(newTasks):
\* the task object is changed in place, so a task of the stored plan changes
\* in dayPlans too; no setter of App runs and nothing is saved
assignInPlace(index, updates) ==
  /\ isLoaded /\ currentView = "TASKS" /\ steps < budget
  /\ isSidebarOpen
  /\ index \in 0..(Len(tempTasks) - 1)
  /\ tempTasks' = [tempTasks EXCEPT ![index + 1] = spread(@, updates)]
  /\ dayPlans' =
       IF index < aliased
       THEN LET at == findPlanIndex(dayPlans, selectedDate.day)
            IN  [dayPlans EXCEPT ![at].tasks[index + 1] = spread(@, updates)]
       ELSE dayPlans
  /\ taskLast' = [taskLast EXCEPT !.ev = "edit"]
  /\ steps' = steps + 1
  /\ UNCHANGED <<habits, logs, microWins, microWinLogs, journalEntries,
                 isLoaded, crashed, storage, download, dialog, uuids, budget, hist,
                 selectedDate, isSidebarOpen, aliased, randoms, aiVars, clockVars, loadLast>>

handleTaskChange(index, text) == assignInPlace(index, [text |-> text])
handleNotesChange(index, notes) == assignInPlace(index, [notes |-> notes])
\* the check box is disabled while the slot has no text
handleTaskToggle(index) ==
  /\ index \in 0..(Len(tempTasks) - 1)
  /\ tempTasks[index + 1].text # ""
  /\ assignInPlace(index, [completed |-> ~tempTasks[index + 1].completed])

\* Save Priorities: onSavePlan is App's saveDayPlan, and the array it stores is
\* tempTasks itself
saveTasks ==
  /\ CanCall /\ currentView = "TASKS"
  /\ isSidebarOpen
  /\ selectedDate # Null
  /\ dayPlans' = saveDayPlanList(dayPlans, selectedDate.day, tempTasks)
  /\ isSidebarOpen' = FALSE
  /\ aliased' = Len(tempTasks)
  /\ taskLast' = [taskLast EXCEPT !.ev = "save"]
  /\ UNCHANGED <<habits, logs, microWins, microWinLogs, journalEntries, download,
                 uuids, selectedDate, tempTasks, randoms>>
  /\ Saved("saveDayPlan", <<selectedDate.day, tempTasks>>, "")

\* the X button and the overlay: setIsSidebarOpen(false)
closeSidebar ==
  /\ isLoaded /\ currentView = "TASKS"
  /\ isSidebarOpen
  /\ isSidebarOpen' = FALSE
  /\ taskLast' = [taskLast EXCEPT !.ev = "close"]
  /\ UNCHANGED <<collections, isLoaded, crashed, storage, download, dialog,
                 uuids, steps, budget, hist, selectedDate, tempTasks, aliased,
                 randoms, aiVars, clockVars, loadLast>>

----------------------------------------------------------------------------
(* The clock *)

\* midnight passes: new Date() is on the next calendar day. The Dashboard's
\* timer follows it (stableToday); the Journal's todayStr is a memo with no
\* dependencies and keeps the day the Journal was mounted on.
midnight ==
  /\ isLoaded
  /\ now < Today + MaxDays
  /\ now' = now + 1
  /\ UNCHANGED <<collections, isLoaded, crashed, storage, download, dialog,
                 uuids, steps, budget, hist, aiVars, taskVars, todayStr, loadLast>>

----------------------------------------------------------------------------
(* Backup and restore (App.tsx:191-222, HabitManager handleFileUpload) *)

\* JSON.stringify(data, null, 2) of the BackupData built from the state s
exportDocument(s) ==
  [json |-> [habits         |-> stringifyArray(s.habits).json,
             logs           |-> stringifyArray(s.logs).json,
             microWins      |-> stringifyArray(s.microWins).json,
             microWinLogs   |-> stringifyArray(s.microWinLogs).json,
             dayPlans       |-> stringifyArray(s.dayPlans).json,
             journalEntries |-> stringifyArray(s.journalEntries).json,
             exportDate     |-> Today]]

handleExportData ==
  /\ CanCall
  /\ download' = exportDocument(Snap)
  /\ UNCHANGED <<habits, logs, microWins, microWinLogs, dayPlans, journalEntries, uuids>>
  /\ After("handleExportData", <<>>, "")

\* an import that merges into the current collection instead of overwriting it
importField_merge(data, f, current) ==
  IF f \in DOMAIN data THEN current \o data[f] ELSE current
\* an import that clears the collections the document does not hold
importField_clear(data, f, current) == IF f \in DOMAIN data THEN data[f] ELSE <<>>
\* if (data.f) setF(data.f)
importField(data, f, current) == IF f \in DOMAIN data THEN data[f] ELSE current

\* handleImportData throws on a parsed value that has no properties (null)
importThrows(data) == data = Null

\* handleImportData without the confirm() guard
handleImportData_noConfirm(data, confirmed, s) ==
  [habits         |-> importField(data, "habits", s.habits),
   logs           |-> importField(data, "logs", s.logs),
   microWins      |-> importField(data, "microWins", s.microWins),
   microWinLogs   |-> importField(data, "microWinLogs", s.microWinLogs),
   dayPlans       |-> importField(data, "dayPlans", s.dayPlans),
   journalEntries |-> importField(data, "journalEntries", s.journalEntries)]

\* handleImportData: the collections it leaves, from the collections s, the
\* parsed document and the user's answer to confirm()
handleImportData(data, confirmed, s) ==
  IF confirmed
  THEN [habits         |-> importField(data, "habits", s.habits),
        logs           |-> importField(data, "logs", s.logs),
        microWins      |-> importField(data, "microWins", s.microWins),
        microWinLogs   |-> importField(data, "microWinLogs", s.microWinLogs),
        dayPlans       |-> importField(data, "dayPlans", s.dayPlans),
        journalEntries |-> importField(data, "journalEntries", s.journalEntries)]
  ELSE s

\* reader.onload of handleFileUpload: text is the file's content; the catch
\* covers JSON.parse and the call of onImport
handleFileUpload(text, confirmed) ==
  /\ CanCall
  /\ IF parseThrows(text) \/ importThrows(parse(text))
     THEN /\ UNCHANGED collections
          /\ After("handleFileUpload", <<text, confirmed>>, "Invalid file format.")
     ELSE /\ LET s == handleImportData(parse(text), confirmed, Snap)
             IN  /\ habits' = s.habits
                 /\ logs' = s.logs
                 /\ microWins' = s.microWins
                 /\ microWinLogs' = s.microWinLogs
                 /\ dayPlans' = s.dayPlans
                 /\ journalEntries' = s.journalEntries
          /\ After("handleFileUpload", <<text, confirmed>>,
                   IF confirmed THEN "Data restored successfully!" ELSE "")
  /\ UNCHANGED <<download, uuids>>

----------------------------------------------------------------------------
(* Navigation and the AI coach (App.tsx:49, 264; part_002:69-70, 216-221,     *)
(* 510-516; services/geminiService.ts)                                      *)

\* a JavaScript string value, told apart from undefined
Str(text) == [str |-> text]

ConfigMissingMessage ==
  "AI Configuration Missing. Please add your Google Gemini API Key in the Habits tab settings."
AiErrorMessage == "Error connecting to AI. Please check your API Key."
NoInsightMessage == "No insight available."

\* result || fallback, as a string
orElse(result, fallback) ==
  IF result = Undefined \/ result = Str("") THEN fallback ELSE result.str

\* how ai.models.generateContent can settle: fulfilled with a response whose
\* text is the generated text, or undefined when the response holds none;
\* rejected on a network error, a refused key or a reply it cannot decode
Outcomes ==
  { [fulfilled |-> TRUE, text |-> Str("You have kept your run going.")],
    [fulfilled |-> TRUE, text |-> Undefined],
    [fulfilled |-> FALSE, reason |-> "network"],
    [fulfilled |-> FALSE, reason |-> "auth"],
    [fulfilled |-> FALSE, reason |-> "malformed response"] }

\* analyzeProgress without the test of the key
analyzeProgress_noKeyCheck(key) == [request |-> TRUE]

\* analyzeProgress up to its await: without a key it returns the fixed message
\* before the client is built; with one it issues the request
analyzeProgress(key) ==
  IF key = "" THEN [request |-> FALSE, value |-> Str(ConfigMissingMessage)]
  ELSE [request |-> TRUE]

\* analyzeProgress from its await on, without the catch
analyzeProgressAwait_noCatch(outcome) ==
  IF outcome.fulfilled THEN [rejected |-> FALSE, value |-> outcome.text]
  ELSE [rejected |-> TRUE, value |-> Str(outcome.reason)]

\* analyzeProgress from its await on: how the promise it returned settles
analyzeProgressAwait(outcome) ==
  IF outcome.fulfilled THEN [rejected |-> FALSE, value |-> outcome.text]
  ELSE [rejected |-> FALSE, value |-> Str(AiErrorMessage)]

\* the Analyze button with no disabled attribute
AnalyzeOffered_always == currentView = "DASHBOARD"

\* the Analyze button is on screen and not disabled
AnalyzeOffered == currentView = "DASHBOARD" /\ ~loadingAi

\* handleAiAnalysis up to its await. Without a key the awaited promise is
\* already fulfilled, so the rest of the handler runs before any other event.
handleAiAnalysis ==
  /\ isLoaded /\ AnalyzeOffered
  /\ aiCalls < MaxAiCalls
  /\ aiCalls' = aiCalls + 1
  /\ LET a == analyzeProgress(apiKey)
     IN  IF a.request
         THEN /\ loadingAi' = TRUE
              /\ pendingAi' = pendingAi \cup {[id |-> aiCalls + 1, dashboard |-> dashboard]}
              /\ aiRequests' = aiRequests + 1
              /\ UNCHANGED aiInsight
         ELSE /\ aiInsight' = orElse(a.value, NoInsightMessage)
              /\ loadingAi' = FALSE
              /\ UNCHANGED <<pendingAi, aiRequests>>
  /\ aiLast' = [ev |-> "analyze", apiKey |-> apiKey,
                requestsBefore |-> aiRequests, pendingBefore |-> pendingAi]
  /\ UNCHANGED <<collections, isLoaded, crashed, storage, download, dialog,
                 uuids, steps, budget, hist, currentView, apiKey, dashboard,
                 heatmapSelectedHabitId>>
  /\ UNCHANGED <<taskVars, clockVars, loadLast>>

\* handleAiAnalysis after its await, for the request r settling with outcome.
\* The setters belong to the Dashboard mount that issued r: once that mount is
\* gone they change nothing. A rejection would leave the handler at the await.
handleAiAnalysisResumed(r, outcome) ==
  /\ r \in pendingAi
  /\ pendingAi' = pendingAi \ {r}
  /\ LET result == analyzeProgressAwait(outcome)
         mounted == currentView = "DASHBOARD" /\ r.dashboard = dashboard
     IN  /\ IF mounted /\ ~result.rejected
            THEN /\ aiInsight' = orElse(result.value, NoInsightMessage)
                 /\ loadingAi' = FALSE
            ELSE UNCHANGED <<aiInsight, loadingAi>>
         /\ aiLast' = [ev |-> "settle", request |-> r, outcome |-> outcome,
                       result |-> result, mounted |-> mounted,
                       insightBefore |-> aiInsight, loadingBefore |-> loadingAi]
  /\ UNCHANGED <<collections, isLoaded, crashed, storage, download, dialog,
                 uuids, steps, budget, hist, currentView, apiKey, dashboard,
                 aiCalls, aiRequests, heatmapSelectedHabitId>>
  /\ UNCHANGED <<taskVars, clockVars, loadLast>>

\* a Dashboard that kept its selection while it was off screen
heatmapSelectionOnView_kept(view) == heatmapSelectedHabitId

\* the heatmap's selection when the view changes to or from the Dashboard: a
\* Dashboard that mounts starts from '' and its effect selects the first habit
\* there is; one that unmounts has no selection
heatmapSelectionOnView(view) ==
  IF view = "DASHBOARD" THEN firstHabitId(habits) ELSE ""

\* the navigation buttons: {currentView === ViewState.DASHBOARD && <Dashboard/>}
\* unmounts the Dashboard with its state and mounts a fresh one on return
setCurrentView(view) ==
  /\ isLoaded
  /\ view # currentView
  /\ currentView' = view
  /\ IF view = "DASHBOARD"
     THEN /\ dashboard < MaxMounts
          /\ dashboard' = dashboard + 1
     ELSE UNCHANGED dashboard
  /\ IF view = "DASHBOARD" \/ currentView = "DASHBOARD"
     THEN /\ aiInsight' = "" /\ loadingAi' = FALSE
          /\ heatmapSelectedHabitId' = heatmapSelectionOnView(view)
     ELSE UNCHANGED <<aiInsight, loadingAi, heatmapSelectedHabitId>>
  /\ aiLast' = [ev |-> "view"]
  \* the task manager goes or comes: its state is the initial one
  /\ IF view = "TASKS" \/ currentView = "TASKS"
     THEN /\ selectedDate' = Null /\ isSidebarOpen' = FALSE
          /\ tempTasks' = <<>> /\ aliased' = 0
          /\ taskLast' = [ev |-> "none"]
     ELSE UNCHANGED <<selectedDate, isSidebarOpen, tempTasks, aliased, taskLast>>
  \* the Journal view comes: its memo takes the day it is
  /\ todayStr' = IF view = "JOURNAL" THEN now ELSE todayStr
  /\ UNCHANGED <<collections, isLoaded, crashed, storage, download, dialog,
                 uuids, steps, budget, hist, apiKey, pendingAi, aiCalls, aiRequests,
                 randoms, now, loadLast>>

----------------------------------------------------------------------------
(* JavaScript Numbers: w / t, x * 100 and Math.round as the Dashboard's       *)
(* statistics use them (Journal.tsx:258, 327)                               *)

\* A Number that is not negative, as the IEEE 754 double it is: m * 2^e, with
\* the 53-bit significand m held as four base-2^15 limbs, most significant
\* first; zero has m = 0.
Limb == 32768
double(m, e) == [m |-> m, e |-> e]
Zero == double(<<0, 0, 0, 0>>, 0)

\* m + 1, and the result renormalised when it reaches 2^53
nextUp(m, e) ==
  LET d == (m[4] + 1) % Limb
      c == (m[3] + (m[4] + 1) \div Limb) % Limb
      b == (m[2] + (m[3] + (m[4] + 1) \div Limb) \div Limb) % Limb
      a == m[1] + (m[2] + (m[3] + (m[4] + 1) \div Limb) \div Limb) \div Limb
  IN  IF a = 256 THEN double(<<128, 0, 0, 0>>, e + 1) ELSE double(<<a, b, c, d>>, e)

\* m shifted right by k bits (0 <= k <= 15)
shiftRight(m, k) ==
  LET low == 2 ^ k
      high == 2 ^ (15 - k)
  IN  << m[1] \div low,
         (m[1] % low) * high + m[2] \div low,
         (m[2] % low) * high + m[3] \div low,
         (m[3] % low) * high + m[4] \div low >>

\* round to nearest, ties to even: m is the kept part, rest the k bits dropped
\* (with sticky telling that more was dropped below them)
roundNearestEven(m, e, rest, k, sticky) ==
  LET half == 2 ^ (k - 1)
  IN  IF rest > half \/ (rest = half /\ (sticky \/ m[4] % 2 = 1))
      THEN nextUp(m, e) ELSE double(m, e)

\* the double nearest to w / t, for integers 0 <= w and 0 < t < 2^16
flDiv(w, t) ==
  IF w = 0 THEN Zero
  ELSE LET \* 2^E <= w / t < 2^(E + 1)
           E == IF w >= t
                THEN CHOOSE k \in 0..16 : t * 2 ^ k <= w /\ w < t * 2 ^ (k + 1)
                ELSE 0 - (CHOOSE k \in 1..16 : w * 2 ^ k >= t /\ w * 2 ^ (k - 1) < t)
           \* the 54-bit quotient floor(w * 2^(53 - E) / t), by long division
           sh == 53 - E
           n0 == w * 2 ^ (sh % 15)
           r0 == n0 % t
           d1 == (r0 * Limb) \div t
           r1 == (r0 * Limb) % t
           d2 == (r1 * Limb) \div t
           r2 == (r1 * Limb) % t
           d3 == (r2 * Limb) \div t
           r3 == (r2 * Limb) % t
           d4 == (r3 * Limb) \div t
           r4 == (r3 * Limb) % t
           q == IF sh \div 15 = 3 THEN <<n0 \div t, d1, d2, d3>> ELSE <<d1, d2, d3, d4>>
           r == IF sh \div 15 = 3 THEN r3 ELSE r4
       IN  roundNearestEven(shiftRight(q, 1), E - 52, q[4] % 2, 1, r # 0)

\* the double nearest to x * c, for an integer 1 <= c < 128
flMul(x, c) ==
  IF x.m = <<0, 0, 0, 0>> THEN Zero
  ELSE LET p4 == x.m[4] * c
           p3 == x.m[3] * c + p4 \div Limb
           p2 == x.m[2] * c + p3 \div Limb
           p1 == x.m[1] * c + p2 \div Limb
           p == <<p1, p2 % Limb, p3 % Limb, p4 % Limb>>
           \* the product has 53 + k bits
           k == CHOOSE n \in 0..7 : 2 ^ (n + 7) <= p1 /\ p1 < 2 ^ (n + 8)
       IN  IF k = 0 THEN double(p, x.e)
           ELSE roundNearestEven(shiftRight(p, k), x.e + k, p[4] % (2 ^ k), k, FALSE)

\* bit i of m (bit 0 is the lowest)
bit(m, i) == (m[4 - i \div 15] \div 2 ^ (i % 15)) % 2

\* Math.round of a double below 2^15: the nearest integer, ties upwards
MathRound(x) ==
  LET n == 0 - x.e  \* bits after the binary point
  IN  IF x.m = <<0, 0, 0, 0>> \/ n > 53 THEN 0
      ELSE IF n = 53 THEN 1
      ELSE (IF n >= 45 THEN x.m[1] \div 2 ^ (n - 45)
            ELSE x.m[1] * 2 ^ (45 - n) + x.m[2] \div 2 ^ (n - 30))
           + bit(x.m, n - 1)

----------------------------------------------------------------------------
(* Dashboard statistics (Journal.tsx:212-329) *)

\* stableToday (Journal.tsx:215-225): the start of the day it is, followed by
\* the one-second timer
stableToday == now

\* chartData, for the day d: the logs of that day over all habits
dayLogs(d) == SelectSeq(logs, LAMBDA l : l.date = d)
fullCount(d) == Len(SelectSeq(dayLogs(d), LAMBDA l : l.completed))
partialCount(d) == Len(SelectSeq(dayLogs(d), LAMBDA l : l.partial))
\* habits.length || 1
totalHabits == IF Len(habits) # 0 THEN Len(habits) ELSE 1

\* Math.round((weightedScore / totalHabits) * 100)
momentumScore(weightedScore, total) ==
  MathRound(flMul(flDiv(weightedScore, total), 100))

\* the 30 rows of chartData, oldest day first (i runs from 29 down to 0)
chartData ==
  [j \in 1..30 |->
     LET d == subDays(stableToday, 30 - j)
     IN  [rawDate |-> d, Full |-> fullCount(d), Partial |-> partialCount(d),
          Momentum |-> momentumScore(fullCount(d) * 1 + partialCount(d) * 1,
                                     totalHabits)]]

\* heatmapSelectedHabitId || (habits.length > 0 ? habits[0].id : '')
effectiveHabitId ==
  IF heatmapSelectedHabitId # "" THEN heatmapSelectedHabitId
  ELSE firstHabitId(habits)

\* createdStart that lets every day count: the first day there is
createdStart_firstDay == subDays(stableToday, stableToday)

\* the day of the selected habit's createdAt; today when there is no such
\* habit or it has no createdAt
createdStart ==
  LET selectedHabit ==
        firstOf(SelectSeq(habits, LAMBDA h : h.id = effectiveHabitId))
  IN  IF selectedHabit # Undefined /\ "createdAt" \in DOMAIN selectedHabit
      THEN selectedHabit.createdAt ELSE Today

CONSISTENCY_WINDOW == 30

\* the loop over the last 30 days: a day counts when it is not before
\* createdStart and the first log found for it is completed or partial
consistencyScoreTotal ==
  Cardinality(
    { i \in 0..(CONSISTENCY_WINDOW - 1) :
        LET d == subDays(stableToday, i)
            log == firstOf(SelectSeq(logs, LAMBDA l :
                             l.habitId = effectiveHabitId /\ l.date = d))
        IN  /\ d >= createdStart
            /\ log # Undefined
            /\ (log.completed \/ log.partial) })

heatmapPercentage ==
  IF effectiveHabitId = "" THEN 0
  ELSE LET percentage ==
             MathRound(flMul(flDiv(consistencyScoreTotal, CONSISTENCY_WINDOW), 100))
       IN  IF percentage < 100 THEN percentage ELSE 100

\* the habit selector of the heatmap: one option per habit
setHeatmapSelectedHabitId(id) ==
  /\ isLoaded /\ currentView = "DASHBOARD"
  /\ id # heatmapSelectedHabitId
  /\ heatmapSelectedHabitId' = id
  /\ UNCHANGED <<collections, isLoaded, crashed, storage, download, dialog,
                 uuids, steps, budget, hist, currentView, apiKey, dashboard,
                 aiInsight, loadingAi, pendingAi, aiCalls, aiRequests, aiLast>>
  /\ UNCHANGED <<taskVars, clockVars, loadLast>>

----------------------------------------------------------------------------
(* Inputs *)

HabitIds == {h.id : h \in Range(habits)}
HabitIdInputs == HabitIds \cup {"1", GhostId}
DateInputs == subDays(Today, DaysBack)..Today

WinIds == {w.id : w \in Range(microWins)}
WinIdInputs == WinIds \cup {"m1", GhostId}

\* the form of HabitManager: name, objective and minObjective
HabitForms == {[name |-> "Stretch", objective |-> "10 min", minObjective |-> "2 min"]}
\* Partial<Habit>
HabitUpdates == HabitForms \cup {[name |-> "Evening Run"]}
\* a rendered row's index, and the row above or below it
ReorderInputs(list) ==
  UNION {{<<i, i - 1>>, <<i, i + 1>>} : i \in 0..(Len(list) - 1)}
\* reorderHabits and reorderMicroWins as functions of two numbers: every pair of
\* indices in and around the list
IndexPairs(list) ==
  LET idx == (0 - IndexSlack)..(Len(list) - 1 + IndexSlack) IN idx \X idx
WinTexts == {"Drank water"}
TaskLists ==
  { <<>>,
    <<[id |-> "t1", text |-> "Ship report", completed |-> FALSE],
      [id |-> "t2", text |-> "", completed |-> TRUE]>> }
Contents == { <<>>, <<" ", " ">>, <<"o", "k">> }
\* the textarea's value, and the days the Journal view can be turned to
JournalTexts == Contents \cup { <<"\n", "\t">>, <<" ", "a", " ">> }
JournalDates == subDays(Today, JournalDaysBack)..Today

\* a backup that holds only habits
HabitsOnlyFile ==
  [json |-> [habits |-> <<[id |-> "7", name |-> "Imported", objective |-> "x",
                           minObjective |-> "y", createdAt |-> subDays(Today, 1)]>>]]
\* the JSON text null
NullFile == [json |-> Null]
Files ==
  {HabitsOnlyFile, NullFile, NotJson} \cup (IF download # Null THEN {download} ELSE {})

ToggleHabit ==
  \E id \in HabitIdInputs, d \in DateInputs, t \in {"FULL", "PARTIAL", "TOGGLE"} :
    toggleHabit(id, d, t)

AddHabit == \E d \in HabitForms : addHabit(d)
UpdateHabit == \E id \in HabitIdInputs, u \in HabitUpdates : updateHabit(id, u)
DeleteHabit == \E id \in HabitIdInputs : deleteHabit(id)
ReorderHabits == \E p \in ReorderInputs(habits) : reorderHabits(p[1], p[2])
AddMicroWin == \E t \in WinTexts : addMicroWin(t)
DeleteMicroWin == \E id \in WinIdInputs : deleteMicroWin(id)
ReorderMicroWins == \E p \in ReorderInputs(microWins) : reorderMicroWins(p[1], p[2])
ToggleMicroWin == \E id \in WinIdInputs, d \in DateInputs : toggleMicroWin(id, d)
SaveDayPlan == \E d \in DateInputs, t \in TaskLists : saveDayPlan(d, t)
SaveJournalEntry == \E d \in DateInputs, c \in Contents : saveJournalEntry(d, c)
ExportData == handleExportData
FileUpload == \E f \in Files, c \in BOOLEAN : handleFileUpload(f, c)

Next ==
  \/ Load
  \/ AddHabit \/ UpdateHabit \/ DeleteHabit \/ ReorderHabits \/ ToggleHabit
  \/ AddMicroWin \/ DeleteMicroWin \/ ReorderMicroWins \/ ToggleMicroWin
  \/ SaveDayPlan \/ SaveJournalEntry
  \/ ExportData \/ FileUpload

Spec == Init /\ [][Next]_vars

\* the Dashboard's only mutation: toggling habits
NextToggle == Load \/ ToggleHabit
SpecToggle == InitDeep /\ [][NextToggle]_vars

\* the habit list and its logs
NextHabits ==
  Load \/ AddHabit \/ UpdateHabit \/ DeleteHabit \/ ReorderHabits \/ ToggleHabit
SpecHabits == InitDeep /\ [][NextHabits]_vars

\* backup and restore, over states in which every collection can hold something
NextBackup ==
  \/ Load
  \/ DeleteHabit \/ ReorderHabits \/ ToggleMicroWin
  \/ SaveDayPlan \/ SaveJournalEntry
  \/ ExportData \/ FileUpload
SpecBackup == InitDeep /\ [][NextBackup]_vars

\* startup over any stored state, and the first journal edit after it
\* the two reorder handlers over every pair of indices
MoveHabit == \E p \in IndexPairs(habits) : reorderHabits(p[1], p[2])
MoveMicroWin == \E p \in IndexPairs(microWins) : reorderMicroWins(p[1], p[2])
NextReorder == Load \/ MoveHabit \/ MoveMicroWin
SpecReorder == InitReorder /\ [][NextReorder]_vars

\* the journal, edited on several days
EditJournal ==
  \E d \in JournalDates, c \in JournalTexts : saveJournalEntry(d, c)
NextJournal == Load \/ EditJournal
SpecJournal == InitJournal /\ [][NextJournal]_vars

\* the key an earlier session stored, if any
StoredKeys == {"", "key-1"}
ViewStates == {"DASHBOARD", "HABITS", "TASKS", "JOURNAL"}
LoadStoredKey == \E k \in StoredKeys : loadEffect(k)
SetCurrentView == \E v \in ViewStates : setCurrentView(v)
Analyze == handleAiAnalysis
Settle == \E r \in pendingAi, o \in Outcomes : handleAiAnalysisResumed(r, o)

\* the AI coach of the Dashboard, across view changes
NextAi == LoadStoredKey \/ SetCurrentView \/ Analyze \/ Settle
SpecAi == Init /\ [][NextAi]_vars

\* the Dashboard's statistics under toggles and a change of the selected habit
SelectHeatmapHabit == \E id \in HabitIds : setHeatmapSelectedHabitId(id)
NextStats == Load \/ ToggleHabit \/ SelectHeatmapHabit
SpecStats == InitStats /\ [][NextStats]_vars

\* the momentum chart of a user with many habits, across view changes
NextMomentum == Load \/ SetCurrentView
SpecMomentum == InitMany /\ [][NextMomentum]_vars

\* the micro-win check list: ticking, unticking and deleting wins
NextWins == Load \/ ToggleMicroWin \/ DeleteMicroWin
SpecWins == InitDeep /\ [][NextWins]_vars

\* the day plans under saveDayPlan
PlanDates == subDays(Today, PlanDaysBack)..Today
SavePlan ==
  \E d \in PlanDates,
     t \in TaskLists \cup {<<[id |-> "t3", text |-> "Plan week", completed |-> FALSE]>>} :
    saveDayPlan(d, t)
NextPlans == Load \/ SavePlan
SpecPlans == InitPlans /\ [][NextPlans]_vars

\* the task manager: opening a day, editing its slots, saving or closing
DayClick == \E d \in PlanDates : handleDayClick(d)
\* an input, a notes area and a check box per slot of the sidebar
TaskChange ==
  \E i \in 0..(Len(tempTasks) - 1), t \in {"", "Refactor"} : handleTaskChange(i, t)
NotesChange ==
  \E i \in 0..(Len(tempTasks) - 1), n \in {"call first"} : handleNotesChange(i, n)
TaskToggle == \E i \in 0..(Len(tempTasks) - 1) : handleTaskToggle(i)
NextTasks ==
  \/ Load \/ SetCurrentView
  \/ DayClick \/ TaskChange \/ NotesChange \/ TaskToggle
  \/ saveTasks \/ closeSidebar
SpecTasks == InitTasks /\ [][NextTasks]_vars

\* the operations as the views offer them: each from the view that shows it,
\* on the rows that view lists
ViewAddHabit == currentView = "HABITS" /\ AddHabit
ViewEditHabit ==
  currentView = "HABITS" /\ \E id \in HabitIds, f \in HabitForms : updateHabit(id, f)
ViewDeleteHabit == currentView = "HABITS" /\ \E id \in HabitIds : deleteHabit(id)
\* the arrows of a row; the one that would leave the list is disabled
ViewReorderHabits ==
  /\ currentView = "HABITS"
  /\ \E p \in ReorderInputs(habits) :
       p[2] \in 0..(Len(habits) - 1) /\ reorderHabits(p[1], p[2])
ViewToggleHabit ==
  /\ currentView = "DASHBOARD"
  /\ \E id \in HabitIds, t \in {"FULL", "PARTIAL"} : toggleHabit(id, stableToday, t)
ViewAddMicroWin == currentView = "JOURNAL" /\ AddMicroWin
ViewDeleteMicroWin == currentView = "JOURNAL" /\ \E id \in WinIds : deleteMicroWin(id)
ViewReorderMicroWins == currentView = "JOURNAL" /\ ReorderMicroWins
ViewToggleMicroWin ==
  currentView = "JOURNAL" /\ \E id \in WinIds : toggleMicroWin(id, todayStr)
ViewFileUpload == currentView = "HABITS" /\ FileUpload

\* everything the views offer on habits and micro-wins, import left out
NextViews ==
  \/ Load \/ SetCurrentView
  \/ ViewAddHabit \/ ViewEditHabit \/ ViewDeleteHabit \/ ViewReorderHabits
  \/ ViewToggleHabit
  \/ ViewAddMicroWin \/ ViewDeleteMicroWin \/ ViewReorderMicroWins
  \/ ViewToggleMicroWin
SpecViews == Init /\ [][NextViews]_vars

\* the Journal's micro-win check list over a change of day
NextJournalDay == Load \/ SetCurrentView \/ ViewToggleMicroWin \/ midnight
SpecJournalDay == Init /\ [][NextJournalDay]_vars

\* the Dashboard's heatmap across view switches, habit deletions and imports
NextDashboard ==
  \/ Load \/ SetCurrentView \/ SelectHeatmapHabit
  \/ ViewDeleteHabit \/ ViewFileUpload
SpecDashboard == Init /\ [][NextDashboard]_vars

NextStartup == Load \/ SaveJournalEntry
SpecStartup == InitStored /\ [][NextStartup]_vars

----------------------------------------------------------------------------
(* Properties *)

\* the most recent handler call, and the one before it
Last == hist[Len(hist)]
Prev == hist[Len(hist) - 1]
Called(op) == Len(hist) >= 1 /\ Last.op = op
\* the last two calls were op1 and then op2
CalledTwo(op1, op2) == Len(hist) = 2 /\ Prev.op = op1 /\ Last.op = op2

\* the logs a list holds for one (habitId, date), in list order
KeyLogs(list, habitId, date) ==
  SelectSeq(list, LAMBDA l : l.habitId = habitId /\ l.date = date)
\* the logs a list holds for every other key, in list order
OtherLogs(list, habitId, date) ==
  SelectSeq(list, LAMBDA l : ~(l.habitId = habitId /\ l.date = date))

FullLog(habitId, date) ==
  [date |-> date, habitId |-> habitId, completed |-> TRUE, partial |-> FALSE]
PartialLog(habitId, date) ==
  [date |-> date, habitId |-> habitId, completed |-> FALSE, partial |-> TRUE]
ModeLog(habitId, date, type) ==
  IF type = "FULL" THEN FullLog(habitId, date) ELSE PartialLog(habitId, date)

\* the last two calls were toggleHabit with the same habit, date and mode
ToggledTwice ==
  /\ CalledTwo("toggleHabit", "toggleHabit")
  /\ Prev.args = Last.args
  /\ Last.args[3] \in {"FULL", "PARTIAL"}

\* C1 as stated: two toggles of one key in one mode (FULL twice, or PARTIAL
\* twice) leave the key's log as it was before the two calls, whatever it was.
C1_TwiceRestoresAlways ==
  ToggledTwice =>
    KeyLogs(logs, Last.args[1], Last.args[2])
      = KeyLogs(Prev.pre.logs, Last.args[1], Last.args[2])

\* C1 amended: two toggles of one key in one mode restore the key's log when
\* the key had no log or the log of that mode before; when it had the log of
\* the other mode, the two toggles leave the key without a log.
C1_TwiceRestoresOwnMode ==
  ToggledTwice =>
    LET before == KeyLogs(Prev.pre.logs, Last.args[1], Last.args[2])
        after == KeyLogs(logs, Last.args[1], Last.args[2])
        own == ModeLog(Last.args[1], Last.args[2], Last.args[3])
    IN  IF before = <<>> \/ before = <<own>> THEN after = before ELSE after = <<>>

C1_Witness ==
  /\ ToggledTwice
  /\ Last.args[3] = "FULL"
  /\ KeyLogs(Prev.pre.logs, Last.args[1], Last.args[2])
       = <<FullLog(Last.args[1], Last.args[2])>>
  /\ KeyLogs(logs, Last.args[1], Last.args[2])
       = <<FullLog(Last.args[1], Last.args[2])>>

\* C2: toggleHabit's transition table. In mode FULL a key whose log is completed
\* loses its log and any other key ends with exactly the log {completed: true,
\* partial: false}; in mode PARTIAL a key whose log is partial loses its log and
\* any other key ends with exactly {completed: false, partial: true}. The logs of
\* every other key are unchanged.
C2_ToggleTable ==
  (Called("toggleHabit") /\ Last.args[3] \in {"FULL", "PARTIAL"}) =>
    LET id == Last.args[1]
        d == Last.args[2]
        before == KeyLogs(Last.pre.logs, id, d)
        flagged == \E i \in 1..Len(before) :
                     IF Last.args[3] = "FULL" THEN before[i].completed
                     ELSE before[i].partial
    IN  /\ KeyLogs(logs, id, d)
             = (IF flagged THEN <<>> ELSE <<ModeLog(id, d, Last.args[3])>>)
        /\ OtherLogs(logs, id, d) = OtherLogs(Last.pre.logs, id, d)

\* a PARTIAL toggle has just replaced a full log, next to untouched logs
C2_Witness ==
  /\ Called("toggleHabit") /\ Last.args[3] = "PARTIAL"
  /\ KeyLogs(Last.pre.logs, Last.args[1], Last.args[2])
       = <<FullLog(Last.args[1], Last.args[2])>>
  /\ KeyLogs(logs, Last.args[1], Last.args[2])
       = <<PartialLog(Last.args[1], Last.args[2])>>
  /\ Len(OtherLogs(logs, Last.args[1], Last.args[2])) > 0

Ids(list) == {x.id : x \in Range(list)}

\* C3: deleteHabit(h.id), for a habit h of the list, removes h from the habit
\* list and removes exactly the HabitLogs whose habitId is h.id; the logs of the
\* other habits, and the micro-win, micro-win-log, day-plan and journal
\* collections, are unchanged.
C3_DeleteHabitCascade ==
  (Called("deleteHabit") /\ Last.args[1] \in Ids(Last.pre.habits)) =>
    /\ habits = SelectSeq(Last.pre.habits, LAMBDA h : h.id # Last.args[1])
    /\ logs = SelectSeq(Last.pre.logs, LAMBDA l : l.habitId # Last.args[1])
    /\ microWins = Last.pre.microWins
    /\ microWinLogs = Last.pre.microWinLogs
    /\ dayPlans = Last.pre.dayPlans
    /\ journalEntries = Last.pre.journalEntries

\* a habit with logs was deleted while other habits had logs and another
\* collection had been written to
C3_Witness ==
  /\ Called("deleteHabit") /\ Last.args[1] \in Ids(Last.pre.habits)
  /\ \E l \in Range(Last.pre.logs) : l.habitId = Last.args[1]
  /\ Len(logs) > 0 /\ Len(logs) < Len(Last.pre.logs)
  /\ Len(microWinLogs) + Len(dayPlans) + Len(journalEntries) > 0

\* C4 as stated: updateHabit, deleteHabit and toggleHabit called with an id that
\* no habit has, and deleteMicroWin and toggleMicroWin called with an id that no
\* micro-win has, leave all six collections unchanged.
C4_UnknownIdIsNoOp ==
  Len(hist) >= 1 =>
    ( ( \/ /\ Last.op \in {"updateHabit", "deleteHabit", "toggleHabit"}
            /\ Last.args[1] \notin Ids(Last.pre.habits)
         \/ /\ Last.op \in {"deleteMicroWin", "toggleMicroWin"}
            /\ Last.args[1] \notin Ids(Last.pre.microWins) )
      => Snap = Last.pre )

\* C5: toggleHabit(id, date, FULL) followed by toggleHabit(id, date, PARTIAL)
\* leaves exactly one log for (id, date), with completed=false and partial=true,
\* whatever the key held before.
C5_FullThenPartial ==
  ( /\ CalledTwo("toggleHabit", "toggleHabit")
    /\ Prev.args[1] = Last.args[1] /\ Prev.args[2] = Last.args[2]
    /\ Prev.args[3] = "FULL" /\ Last.args[3] = "PARTIAL" ) =>
    KeyLogs(logs, Last.args[1], Last.args[2])
      = <<PartialLog(Last.args[1], Last.args[2])>>

\* FULL then PARTIAL on a key that held a partial log
C5_Witness ==
  /\ CalledTwo("toggleHabit", "toggleHabit")
  /\ Prev.args[1] = Last.args[1] /\ Prev.args[2] = Last.args[2]
  /\ Prev.args[3] = "FULL" /\ Last.args[3] = "PARTIAL"
  /\ KeyLogs(Prev.pre.logs, Last.args[1], Last.args[2])
       = <<PartialLog(Last.args[1], Last.args[2])>>
  /\ KeyLogs(Last.pre.logs, Last.args[1], Last.args[2])
       = <<FullLog(Last.args[1], Last.args[2])>>
  /\ Len(KeyLogs(logs, Last.args[1], Last.args[2])) = 1

\* C6: from the first-run defaults, under addHabit, updateHabit, deleteHabit,
\* reorderHabits and toggleHabit, the logs hold at most one log per
\* (habitId, date).
C6_OneLogPerKey ==
  \A i, j \in 1..Len(logs) :
    (logs[i].habitId = logs[j].habitId /\ logs[i].date = logs[j].date) => i = j

\* a toggle has replaced the log of a key that already had one, after an
\* earlier call that changed the habit list
C6_Witness ==
  /\ Len(hist) = 2 /\ Prev.op \in {"addHabit", "deleteHabit", "reorderHabits"}
  /\ Last.op = "toggleHabit"
  /\ Len(KeyLogs(Last.pre.logs, Last.args[1], Last.args[2])) = 1
  /\ Len(KeyLogs(logs, Last.args[1], Last.args[2])) = 1
  /\ logs # Last.pre.logs

\* C7: from the first-run defaults, under toggleHabit calls of both modes, every
\* stored HabitLog has exactly one of completed and partial true (so never both).
C7_ExactlyOneFlag ==
  \A i \in 1..Len(logs) : logs[i].completed # logs[i].partial

\* a FULL toggle has just replaced a partial log
C7_Witness ==
  /\ Called("toggleHabit") /\ Last.args[3] = "FULL"
  /\ KeyLogs(Last.pre.logs, Last.args[1], Last.args[2])
       = <<PartialLog(Last.args[1], Last.args[2])>>
  /\ KeyLogs(logs, Last.args[1], Last.args[2])
       = <<FullLog(Last.args[1], Last.args[2])>>

\* C8: an export followed at once by a confirmed import of the exported
\* document leaves all six collections as they were before the export, element
\* order included.
C8_ExportImportRoundTrip ==
  ( /\ CalledTwo("handleExportData", "handleFileUpload")
    /\ Last.args[1] = download /\ Last.args[2] ) =>
    Snap = Prev.pre

\* the round trip ran on a state that an earlier call had written a plan or a
\* journal entry into
C8_Witness ==
  /\ CalledTwo("handleExportData", "handleFileUpload")
  /\ Last.args[1] = download /\ Last.args[2]
  /\ dialog = "Data restored successfully!"
  /\ Len(dayPlans) + Len(journalEntries) > 0
  /\ Len(habits) > 0 /\ Len(logs) > 0

\* C9: a confirmed import overwrites exactly the collections whose field the
\* document holds and leaves every other collection as it was; a document that
\* holds only habits replaces the habit list and nothing else.
C9_ImportOnlyPresentFields ==
  ( /\ Called("handleFileUpload") /\ Last.args[2]
    /\ ~parseThrows(Last.args[1]) /\ ~importThrows(parse(Last.args[1])) ) =>
    \A f \in DOMAIN Snap :
      Snap[f] = (IF f \in DOMAIN Last.args[1].json
                 THEN Last.args[1].json[f] ELSE Last.pre[f])

\* the habits-only backup was imported over other habits, next to logs and
\* micro-win logs
C9_Witness ==
  /\ Called("handleFileUpload") /\ Last.args[2]
  /\ Last.args[1] = HabitsOnlyFile
  /\ habits = HabitsOnlyFile.json.habits /\ habits # Last.pre.habits
  /\ Len(logs) > 0 /\ Len(microWinLogs) > 0
  /\ logs = Last.pre.logs /\ microWinLogs = Last.pre.microWinLogs

\* C10: an upload whose file is not JSON shows the invalid-file-format alert
\* and changes none of the six collections; an upload the user declines to
\* confirm changes none of them either.
C10_ImportNeedsJsonAndConfirm ==
  Called("handleFileUpload") =>
    /\ parseThrows(Last.args[1]) =>
         (dialog = "Invalid file format." /\ Snap = Last.pre)
    /\ ~Last.args[2] => Snap = Last.pre

\* a declined import of a backup that differs from the state, then an upload
\* of a file that is not JSON
C10_Witness ==
  /\ CalledTwo("handleFileUpload", "handleFileUpload")
  /\ Prev.args[1] = HabitsOnlyFile /\ ~Prev.args[2]
  /\ parseThrows(Last.args[1])
  /\ dialog = "Invalid file format."
  /\ Snap = Prev.pre
  /\ habits # HabitsOnlyFile.json.habits

\* the collection a storage key is loaded into
Loaded(k) ==
  CASE k = "obsidian_habits" -> habits
    [] k = "obsidian_logs" -> logs
    [] k = "obsidian_microwins" -> microWins
    [] k = "obsidian_microwin_logs" -> microWinLogs
    [] k = "obsidian_plans" -> dayPlans
    [] OTHER -> journalEntries

\* the default of a storage key's collection
DefaultOf(k) ==
  CASE k = "obsidian_habits" -> DEFAULT_HABITS
    [] k = "obsidian_logs" -> DEFAULT_LOGS
    [] k = "obsidian_microwins" -> DEFAULT_MICRO_WINS
    [] OTHER -> <<>>

\* C11 as stated: the load effect, run over any stored state, completes
\* (isLoaded becomes true, nothing is thrown), and every collection whose key
\* is absent or holds a text that is not JSON takes its default.
C11_LoadFallsBackToDefaults ==
  [][ (~isLoaded /\ ~crashed) =>
        /\ isLoaded' /\ ~crashed'
        /\ \A k \in DOMAIN storage :
             (storage[k] = Null \/ parseThrows(storage[k]))
               => Loaded(k)' = DefaultOf(k) ]_vars

ReorderedPre == IF Last.op = "reorderHabits" THEN Last.pre.habits ELSE Last.pre.microWins
ReorderedPost == IF Last.op = "reorderHabits" THEN habits ELSE microWins
CalledReorder == Len(hist) >= 1 /\ Last.op \in {"reorderHabits", "reorderMicroWins"}

\* C13: reorderHabits and reorderMicroWins called with toIndex < 0 or
\* toIndex >= length (the empty list included), whatever fromIndex is, leave the
\* list as it was, element for element and in the same order.
C13_ToIndexOutsideIsNoOp ==
  ( /\ CalledReorder
    /\ (Last.args[2] < 0 \/ Last.args[2] >= Len(ReorderedPre)) ) =>
    ReorderedPost = ReorderedPre

\* reorderMicroWins(0, 0) ran on the empty list and then reorderHabits(0, 3) on
\* the three default habits
C13_Witness ==
  /\ CalledTwo("reorderMicroWins", "reorderHabits")
  /\ Prev.pre.microWins = <<>> /\ Prev.args = <<0, 0>>
  /\ Last.pre.habits = DEFAULT_HABITS /\ Last.args = <<0, 3>>
  /\ habits = DEFAULT_HABITS /\ microWins = <<>>

\* a list without its element at 0-based index i
without(list, i) == SubSeq(list, 1, i) \o SubSeq(list, i + 2, Len(list))

\* C14: on a list of length n with fromIndex and toIndex both in [0, n-1],
\* reorderHabits and reorderMicroWins give the list with the element of
\* fromIndex sitting at toIndex and the other elements in their former relative
\* order; [A,B,C] with (0,2) becomes [B,C,A].
C14_MovesElement ==
  ( /\ CalledReorder
    /\ Last.args[1] \in 0..(Len(ReorderedPre) - 1)
    /\ Last.args[2] \in 0..(Len(ReorderedPre) - 1) ) =>
    /\ Len(ReorderedPost) = Len(ReorderedPre)
    /\ ReorderedPost[Last.args[2] + 1] = ReorderedPre[Last.args[1] + 1]
    /\ without(ReorderedPost, Last.args[2]) = without(ReorderedPre, Last.args[1])
    /\ (ReorderedPre = DEFAULT_HABITS /\ Last.args = <<0, 2>>) =>
         ReorderedPost = <<DEFAULT_HABITS[2], DEFAULT_HABITS[3], DEFAULT_HABITS[1]>>

\* reorderHabits(0, 2) has turned the three default habits [A,B,C] into [B,C,A]
C14_Witness ==
  /\ Called("reorderHabits") /\ Last.args = <<0, 2>>
  /\ Last.pre.habits = DEFAULT_HABITS
  /\ habits = <<DEFAULT_HABITS[2], DEFAULT_HABITS[3], DEFAULT_HABITS[1]>>

\* the entries a journal holds for one date, and for every other date
EntriesOf(list, date) == SelectSeq(list, LAMBDA e : e.date = date)
EntriesElsewhere(list, date) == SelectSeq(list, LAMBDA e : e.date # date)

\* C15: after saveJournalEntry(date, content) the journal holds no entry for
\* date when content is empty or all white space, and otherwise exactly one
\* entry for date, holding content as given; the entries of every other date
\* are as they were.
C15_OneEntryPerSavedDate ==
  Called("saveJournalEntry") =>
    LET date == Last.args[1]
        content == Last.args[2]
        blank == \A i \in 1..Len(content) : content[i] \in WhiteSpace
    IN  /\ EntriesOf(journalEntries, date)
             = (IF blank THEN <<>> ELSE <<[date |-> date, content |-> content]>>)
        /\ EntriesElsewhere(journalEntries, date)
             = EntriesElsewhere(Last.pre.journalEntries, date)

\* an entry was written for today over two stored ones, and then white space
\* was saved for today: today has no entry, the day before keeps its own
C15_Witness ==
  /\ CalledTwo("saveJournalEntry", "saveJournalEntry")
  /\ Prev.args[1] = Today /\ Last.args[1] = Today
  /\ Len(EntriesOf(Prev.pre.journalEntries, Today)) = 2
  /\ EntriesOf(Last.pre.journalEntries, Today)
       = <<[date |-> Today, content |-> <<" ", "a", " ">>]>>
  /\ Last.args[2] = <<" ", " ">>
  /\ EntriesOf(journalEntries, Today) = <<>>
  /\ journalEntries = <<[date |-> subDays(Today, 1), content |-> <<"b">>]>>

\* the requests of the Dashboard now on screen that have not settled
PendingHere ==
  {r \in pendingAi : currentView = "DASHBOARD" /\ r.dashboard = dashboard}

\* C16 as stated: while a request of the Dashboard on screen is outstanding the
\* Analyze button still starts another one, and once every request has settled
\* the insight on screen is the result of the response that settled last.
C16_SecondRequestRaces ==
  /\ PendingHere # {} => AnalyzeOffered
  /\ (aiLast.ev = "settle" /\ pendingAi = {} /\ currentView = "DASHBOARD") =>
       aiInsight = orElse(aiLast.result.value, NoInsightMessage)

\* C16 amended: the Analyze button is disabled while a request of the Dashboard
\* on screen is outstanding, so that Dashboard never has two outstanding. A
\* request can outlive its Dashboard (the view was left, and perhaps entered
\* again, before it settled): the new Dashboard does offer Analyze, and the old
\* request's response changes neither the insight nor the loading flag. The
\* response of a request of the Dashboard on screen becomes the insight.
C16_OneRequestPerDashboard ==
  /\ Cardinality(PendingHere) <= 1
  /\ PendingHere # {} => loadingAi
  /\ aiLast.ev = "settle" =>
       IF aiLast.mounted
       THEN /\ aiInsight = orElse(aiLast.result.value, NoInsightMessage)
            /\ ~loadingAi
       ELSE /\ aiInsight = aiLast.insightBefore
            /\ loadingAi = aiLast.loadingBefore

\* the first request outlived its Dashboard; the request of the second
\* Dashboard settled first and is shown, then the first one failed, unseen
C16_Witness ==
  /\ aiLast.ev = "settle" /\ ~aiLast.mounted
  /\ aiLast.request.id = 1 /\ ~aiLast.outcome.fulfilled
  /\ currentView = "DASHBOARD" /\ dashboard = 2
  /\ aiRequests = 2 /\ pendingAi = {}
  /\ aiInsight = "You have kept your run going."

\* C17: the promise analyzeProgress returns is never rejected: when the
\* external call fails (network, key, undecodable reply) it is fulfilled with
\* the fixed error message, and when the call succeeds with the text of the
\* response.
C17_ClientNeverRejects ==
  aiLast.ev = "settle" =>
    /\ ~aiLast.result.rejected
    /\ aiLast.result.value = (IF aiLast.outcome.fulfilled THEN aiLast.outcome.text
                              ELSE Str(AiErrorMessage))
    /\ aiLast.mounted => ~loadingAi

\* a request failed on the network and the Dashboard shows the error message
C17_Witness ==
  /\ aiLast.ev = "settle" /\ aiLast.mounted
  /\ aiLast.outcome = [fulfilled |-> FALSE, reason |-> "network"]
  /\ aiInsight = AiErrorMessage /\ ~loadingAi

\* C18: analyzeProgress called with the empty key gives the fixed
\* configuration-missing message and issues no generateContent request.
C18_NoKeyNoRequest ==
  (aiLast.ev = "analyze" /\ aiLast.apiKey = "") =>
    /\ aiInsight = ConfigMissingMessage
    /\ aiRequests = aiLast.requestsBefore
    /\ pendingAi = aiLast.pendingBefore
    /\ ~loadingAi

\* Analyze was clicked without a key: the message is shown, nothing was sent
C18_Witness ==
  /\ aiLast.ev = "analyze" /\ aiLast.apiKey = "" /\ apiKey = ""
  /\ aiCalls = 1 /\ aiRequests = 0 /\ pendingAi = {}
  /\ aiInsight = ConfigMissingMessage

\* the days of the selected habit that count: within the trailing 30 days,
\* not before the habit's creation, with a completed or partial log
CountedDays(id) ==
  { d \in subDays(Today, 29)..Today :
      /\ \E h \in Range(habits) : h.id = id /\ d >= h.createdAt
      /\ \E l \in Range(logs) :
           l.habitId = id /\ l.date = d /\ (l.completed \/ l.partial) }

\* p is x / y rounded to the nearest integer, halves upwards
IsRounded(p, x, y) == 2 * y * p - y <= 2 * x /\ 2 * x < 2 * y * p + y

C20_MomentumFormula ==
  (isLoaded /\ currentView = "DASHBOARD") =>
    \A j \in 1..30 :
      LET d == subDays(Today, 30 - j)
          full == Cardinality({i \in 1..Len(logs) : logs[i].date = d /\ logs[i].completed})
          part == Cardinality({i \in 1..Len(logs) : logs[i].date = d /\ logs[i].partial})
          n == IF Len(habits) > 1 THEN Len(habits) ELSE 1
      IN  /\ chartData[j].rawDate = d
          /\ IsRounded(chartData[j].Momentum, 100 * (full + part), n)

WinKeyLogs(list, winId, date) ==
  SelectSeq(list, LAMBDA l : l.winId = winId /\ l.date = date)
WinOtherLogs(list, winId, date) ==
  SelectSeq(list, LAMBDA l : ~(l.winId = winId /\ l.date = date))

\* C21: toggleMicroWin(winId, date) removes the log of (winId, date) when there
\* is one and otherwise inserts one log with completed = TRUE, leaving the logs
\* of other keys as they were; so from the first-run defaults, under
\* toggleMicroWin and deleteMicroWin, there is at most one log per
\* (winId, date) and every log has completed = TRUE.
C21_PresenceToggle ==
  /\ \A l \in Range(microWinLogs) :
       /\ l.completed = TRUE
       /\ Len(WinKeyLogs(microWinLogs, l.winId, l.date)) = 1
  /\ Called("toggleMicroWin") =>
       LET winId == Last.args[1]
           date == Last.args[2]
           pre == Last.pre.microWinLogs
       IN  /\ WinOtherLogs(microWinLogs, winId, date) = WinOtherLogs(pre, winId, date)
           /\ WinKeyLogs(microWinLogs, winId, date) =
                IF WinKeyLogs(pre, winId, date) # <<>> THEN <<>>
                ELSE <<[date |-> date, winId |-> winId, completed |-> TRUE]>>

\* a win ticked and then unticked: its log is gone again, the other one stays
C21_Witness ==
  /\ CalledTwo("toggleMicroWin", "toggleMicroWin")
  /\ Prev.args = Last.args
  /\ WinKeyLogs(Last.pre.microWinLogs, Last.args[1], Last.args[2]) # <<>>
  /\ WinKeyLogs(microWinLogs, Last.args[1], Last.args[2]) = <<>>
  /\ microWinLogs # <<>>

PlansOf(list, date) == SelectSeq(list, LAMBDA p : p.date = date)
PlansElsewhere(list, date) == SelectSeq(list, LAMBDA p : p.date # date)
OnePlanPerDate(list) == \A p \in Range(list) : Len(PlansOf(list, p.date)) = 1

\* C22: saveDayPlan(date, tasks) leaves exactly one plan for that date, whose
\* task list is the given list and nothing else, and leaves the plans of every
\* other date as they were; so saveDayPlan calls that start from plans with at
\* most one plan per date (the first run has none) keep at most one per date.
C22_SaveReplacesPlan ==
  /\ Called("saveDayPlan") =>
       LET date == Last.args[1]
           tasks == Last.args[2]
           pre == Last.pre.dayPlans
       IN  /\ PlansOf(dayPlans, date) = <<[date |-> date, tasks |-> tasks]>>
           /\ PlansElsewhere(dayPlans, date) = PlansElsewhere(pre, date)
           /\ OnePlanPerDate(pre) => OnePlanPerDate(dayPlans)
  /\ (isLoaded /\ hist = <<>> /\ dayPlans # StoredPlans) => dayPlans = <<>>

\* today had two stored plans, one with a task; saving a different list for
\* today leaves that list alone, and yesterday's plan is still there
C22_Witness ==
  /\ Called("saveDayPlan") /\ Last.args[1] = Today
  /\ Len(PlansOf(Last.pre.dayPlans, Today)) = 2
  /\ Last.args[2] # <<>> /\ Last.args[2] # Last.pre.dayPlans[2].tasks
  /\ PlansOf(dayPlans, Today) = <<[date |-> Today, tasks |-> Last.args[2]]>>
  /\ PlansOf(dayPlans, subDays(Today, 1)) # <<>>

\* C23 as stated: every plan saved through the task manager (open a day, edit,
\* Save Priorities) holds at most 5 tasks, whatever plan was stored for that
\* day before.
C23_AtMostFiveTasks ==
  taskLast.ev = "save" =>
    /\ Len(Last.args[2]) <= 5
    /\ \A p \in Range(dayPlans) : p.date = selectedDate.day => Len(p.tasks) <= 5

\* C26 as stated: opening a day that has a plan, editing in the sidebar and
\* closing it without Save Priorities leaves dayPlans as it was when the
\* sidebar was opened, and so what the next storage write holds for the plans.
C26_CloseWithoutSaveKeepsPlans ==
  ( /\ taskLast.ev = "close"
    /\ \E p \in Range(taskLast.plans) : p.date = selectedDate.day ) =>
    /\ dayPlans = taskLast.plans
    /\ stringifyArray(dayPlans) = taskLast.stored

\* C24: nothing is written to the six storage keys while isLoaded is false, so
\* a value present at startup is never replaced by the initial empty
\* collections; and when all six keys are present the first save writes back
\* the values that were loaded.
C24_NoWriteBeforeLoad ==
  /\ (~isLoaded /\ ~crashed) => loadLast.ev = "none"
  /\ crashed => storage = loadLast.before /\ loadLast.firstCommit = loadLast.before
  /\ isLoaded =>
       /\ loadLast.firstCommit = loadLast.before
       /\ hist = <<>> =>
            /\ \A k \in DOMAIN storage :
                 truthy(loadLast.before[k]) =>
                   /\ storage[k] = loadLast.before[k]
                   /\ Loaded(k) = parse(loadLast.before[k])
            /\ (\A k \in DOMAIN storage : truthy(loadLast.before[k]))
                 => storage = loadLast.before

\* all six keys were present, the load has completed and nothing else has
\* happened: the storage holds what it held
C24_Witness ==
  /\ isLoaded /\ hist = <<>>
  /\ \A k \in DOMAIN storage : truthy(loadLast.before[k])
  /\ habits # <<>> /\ journalEntries # <<>>
  /\ storage = loadLast.before

\* how often x occurs in list
Occurrences(list, x) == Cardinality({i \in 1..Len(list) : list[i] = x})

\* C25 as stated: for every list and every pair of integers (fromIndex,
\* toIndex), fromIndex < 0 and fromIndex >= length included, reorderHabits and
\* reorderMicroWins yield a permutation of the list: the same length and the
\* same elements, none lost and no undefined element inserted.
C25_ReorderPermutes ==
  CalledReorder =>
    /\ Len(ReorderedPost) = Len(ReorderedPre)
    /\ \A x \in Range(ReorderedPre) \cup Range(ReorderedPost) :
         Occurrences(ReorderedPost, x) = Occurrences(ReorderedPre, x)

\* C27 as stated: an analysis that was started, once the external call has
\* resolved or rejected, ends with loadingAi false, the Analyze button usable
\* again and the insight a non-empty string. Nothing but a settling call sets
\* the insight, so this is what holds when the last pending call has settled
\* with the Dashboard on screen.
C27_SettledAnalysisShowsInsight ==
  ( /\ aiLast.ev = "settle" /\ aiLast.request.id = aiCalls
    /\ pendingAi = {}
    /\ currentView = "DASHBOARD" ) =>
    /\ ~loadingAi
    /\ AnalyzeOffered
    /\ aiInsight # ""

\* C28: from the first-run defaults, through the operations the views offer
\* (add, edit, delete and reorder habits; toggle a listed habit for today; add,
\* delete, reorder and toggle listed micro-wins), import excluded, every
\* HabitLog's habitId is the id of a habit there is and every MicroWinLog's
\* winId the id of a micro-win there is.
C28_LogsReferToExisting ==
  /\ \A l \in Range(logs) : l.habitId \in Ids(habits)
  /\ \A l \in Range(microWinLogs) : l.winId \in Ids(microWins)

\* a habit with logs was deleted: its logs went with it, other logs stayed
C28_Witness ==
  /\ Called("deleteHabit")
  /\ \E l \in Range(Last.pre.logs) : l.habitId = Last.args[1]
  /\ Last.args[1] \notin Ids(habits)
  /\ logs # <<>>
  /\ Len(habits) = 2

\* C29 as stated: every MicroWinLog created by toggling a micro-win in the
\* Journal view carries the date of the calendar day on which the toggle
\* happened, also when the day changes while the Journal view stays mounted.
C29_NewWinLogIsDatedToday ==
  [][ (currentView = "JOURNAL" /\ Len(microWinLogs') > Len(microWinLogs)) =>
        microWinLogs'[Len(microWinLogs')].date = now ]_vars

====
